---------------------------- MODULE Spec2Model ----------------------------
(***************************************************************************)
(* VSCodeLikeIDE (src/main.py).                                            *)
(*                                                                         *)
(* Spec: the code-completion popup (show_completions,                      *)
(* _navigate_completions, insert_completion and the <Escape> binding) over *)
(* one editor buffer and its insertion cursor.  Text is a sequence of      *)
(* lines, a line a sequence of one-character strings.  Columns are 0-based *)
(* as in Tk ("line.column"), lines 1-based.                                *)
(*                                                                         *)
(* SpecTerminal: the command history of TerminalEmulator (execute_command,  *)
(* history_up, history_down) over the text of its Entry.                   *)
(*                                                                         *)
(* SpecAnalysis: the static analysis of the editor text (CodeAnalyzer,     *)
(* update_metrics, show_educational_hints).  There a line of the buffer is *)
(* a Python line: an indentation depth and one of the statement forms of   *)
(* Forms, whose text is a sequence of lexemes.                             *)
(*                                                                         *)
(* Tk widgets are modelled by their window names: a name is in `alive`     *)
(* while the Toplevel (and the Listbox inside it) exists; every Listbox    *)
(* command on a destroyed widget raises TclError, as Tk does.              *)
(***************************************************************************)
EXTENDS Integers, Sequences, FiniteSets, TLC

VARIABLES
    current_editor,       \* self.current_editor is set (an editor tab is selected)
    buffer,               \* the text of the editor: a sequence of lines
    caret,                \* the INSERT mark: [line |-> 1.., col |-> 0..]
    completion_window,    \* self.completion_window: None or a window name (0 = None)
    completion_list,      \* self.completion_list: None or the Listbox of a window (0 = None)
    current_completions,  \* self.current_completions: <<>> = attribute not set, <<cs>> = the list cs
    alive,                \* the popup windows that exist in Tk
    listbox,              \* per window name: the items and the selection of its Listbox
    lastOp,               \* the last call: what was called, with what input, how it ended
    anchor,               \* the request the displayed list was built for (not stored by the code)
    superseded,           \* the list that was on screen when the displayed one replaced it (0 = none)
    downRun,              \* number of <Down> since the list was opened, -1 once anything else happened
    config,               \* self.config: [educational_hints |-> BOOLEAN]
    metrics_frame,        \* the sidebar: what metrics_text, suggestions_text and viz_canvas show
    hints,                \* show_educational_hints: the list `hints` of the last call that built one
    history,              \* TerminalEmulator.history: the commands executed, oldest first
    history_index,        \* TerminalEmulator.history_index (0-based, as in the code)
    input,                \* the text of the Entry TerminalEmulator.input
    output,               \* what execute_command wrote to TerminalEmulator.output
    upRun                 \* number of <Up> since the last command ran, -1 once anything else happened

vars == <<current_editor, buffer, caret, completion_window, completion_list,
          current_completions, alive, listbox, lastOp, anchor, superseded,
          downRun, config, metrics_frame, hints, history, history_index, input,
          output, upRun>>

(* the part of the state the analysis writes *)
analysisVars == <<config, metrics_frame, hints>>

(* the state of the terminal emulator *)
terminalVars == <<history, history_index, input, output, upRun>>

---------------------------------------------------------------------------
(* Bounds of the model *)

MaxChars == 2    \* characters (line breaks included) the buffer may hold
MaxCands == 7    \* candidates the provider returns at most
MaxWin == 3      \* window names in use at the same time

(* Program constants *)

PageStep == 5    \* <Prior>/<Next> move the selection by five rows

None == 0
WinIds == 1..MaxWin

LetterC == "c"
Underscore == "_"
Space == " "
Alphabet == {LetterC, Underscore, Space}

---------------------------------------------------------------------------
(* Sequences *)

Take(s, n) == SubSeq(s, 1, n)
Drop(s, n) == SubSeq(s, n + 1, Len(s))
MinOf(S) == CHOOSE x \in S : \A y \in S : x <= y
Smaller(a, b) == IF a <= b THEN a ELSE b
Larger(a, b) == IF a >= b THEN a ELSE b
IsPrefix(p, s) == Len(p) <= Len(s) /\ Take(s, Len(p)) = p

RECURSIVE SumLen(_)
SumLen(lines) == IF lines = <<>> THEN 0 ELSE Len(Head(lines)) + SumLen(Tail(lines))

\* characters of the text, one per line break included
TextSize(lines) == SumLen(lines) + (Len(lines) - 1)

---------------------------------------------------------------------------
(* str.isalnum: letters and digits *)
AlnumChars ==
    {"a", "b", "c", "d", "e", "f", "g", "h", "i", "j", "k", "l", "m",
     "n", "o", "p", "q", "r", "s", "t", "u", "v", "w", "x", "y", "z",
     "0", "1", "2", "3", "4", "5", "6", "7", "8", "9"}
isalnum(ch) == ch \in AlnumChars

(* insert_completion, the test of the scan: a character of the current word *)
IsWordCharNoUnderscore(ch) == isalnum(ch)
IsWordChar(ch) == ~(~isalnum(ch) /\ ch # Underscore)

(* insert_completion: for i in range(len(line) - 1, -1, -1) *)
RECURSIVE ScanLeft(_, _, _)
ScanLeft(line, i, word_start) ==
    IF i < 0 THEN word_start
    ELSE IF ~IsWordChar(line[i + 1]) THEN word_start
    ELSE ScanLeft(line, i - 1, i)

(* insert_completion: word_start of the text between the line start and the cursor *)
WordStart(line) == ScanLeft(line, Len(line) - 1, Len(line))


---------------------------------------------------------------------------
(* The completion provider: jedi.Script(code).complete(line_no, column).   *)
(* A Completion has the attributes the code reads: name (the full name),   *)
(* type, and complete (the rest of the name after the characters already   *)
(* typed, as jedi defines it).                                             *)

(* the names defined in the analysed code, in jedi's ranking *)
NamePool ==
    << [name |-> <<"c">>,           type |-> "function"],
       [name |-> <<"c", "c">>,      type |-> "class"],
       [name |-> <<"c", "_">>,      type |-> "param"],
       [name |-> <<"_">>,           type |-> "statement"],
       [name |-> <<"_", "c">>,      type |-> "function"],
       [name |-> <<"c", "c", "c">>, type |-> "keyword"],
       [name |-> <<"_", "_">>,      type |-> "module"],
       [name |-> <<"c", "_", "c">>, type |-> "instance"] >>

(* the identifier characters just left of the cursor: the name being completed *)
LikeName(text) ==
    LET stops == {k \in 1..Len(text) : text[k] \notin AlnumChars \cup {Underscore}}
        last == IF stops = {} THEN 0
                ELSE CHOOSE k \in stops : \A j \in stops : j <= k
    IN Drop(text, last)

Completion(entry, like) ==
    [name |-> entry.name, type |-> entry.type,
     complete |-> Drop(entry.name, Len(like))]

RECURSIVE Ranked(_, _)
Ranked(pool, like) ==
    IF pool = <<>> THEN <<>>
    ELSE IF IsPrefix(like, Head(pool).name)
         THEN <<Completion(Head(pool), like)>> \o Ranked(Tail(pool), like)
         ELSE Ranked(Tail(pool), like)

(* what script.complete may return at the cursor: nothing, or the ranked names *)
ProviderAnswers(lines, line_no, column) ==
    LET all == Ranked(NamePool, LikeName(Take(lines[line_no], column)))
    IN {<<>>, Take(all, Smaller(Len(all), MaxCands))}

(* where show_completions can fail: jedi raises, bbox() returns None for a  *)
(* cursor scrolled out of view, comp.type raises while the list is filled   *)
Faults == {"none", "provider", "bbox", "type"}

---------------------------------------------------------------------------
(* Tk *)

EmptyListbox == [items |-> <<>>, sel |-> {}]

(* Toplevel.destroy(): the window and the widgets in it cease to exist *)
DestroyAlive(al, w) == al \ {w}
DestroyListbox(lb, w) == IF w \in WinIds THEN [lb EXCEPT ![w] = EmptyListbox] ELSE lb

(* a new widget gets a name no live widget and no attribute of the IDE holds *)
FreeNames(al) == WinIds \ (al \cup {completion_window, completion_list})
NewName(al) == MinOf(FreeNames(al))

(* _get_completion_icon *)
CompletionIcon(completion_type) ==
    CASE completion_type = "module" -> "package"
      [] completion_type = "class" -> "blue diamond"
      [] completion_type = "function" -> "orange diamond"
      [] completion_type = "instance" -> "paperclip"
      [] completion_type = "keyword" -> "key"
      [] completion_type = "statement" -> "page"
      [] completion_type = "import" -> "inbox"
      [] OTHER -> "bullet"

(* show_completions: the row inserted for one completion *)
Row(comp) == <<CompletionIcon(comp.type), comp.name, comp.type>>

(* show_completions: for comp in completions: insert(tk.END, ...) *)
RowsReversed(completions) ==
    [i \in 1..Len(completions) |-> Row(completions[Len(completions) + 1 - i])]
RowsWithoutLast(completions) ==
    [i \in 1..(Len(completions) - 1) |-> Row(completions[i])]
Rows(completions) == [i \in 1..Len(completions) |-> Row(completions[i])]

---------------------------------------------------------------------------
(* State *)

NoAnchor == [line |-> 0, col |-> 0, word_start |-> 0]

(* setup_metrics_sidebar: the three widgets of the sidebar, empty *)
EmptySidebar == [metrics_text |-> <<>>, suggestions_text |-> <<>>, viz_canvas |-> <<>>]

(* setup_keybindings: the default configuration *)
DefaultConfig == [educational_hints |-> TRUE]

(* a candidate list is on screen and is the one the IDE refers to *)
Displayed == completion_list # None /\ completion_list \in alive

(* the selected row of the displayed list: curselection()[0] *)
Selected == MinOf(listbox[completion_list].sel)

(* TerminalEmulator.__init__ *)
NewTerminal ==
    /\ history = <<>>
    /\ history_index = 0
    /\ input = <<>>
    /\ output = <<>>
    /\ upRun = -1

Init ==
    /\ current_editor = FALSE
    /\ buffer = << <<>> >>
    /\ caret = [line |-> 1, col |-> 0]
    /\ completion_window = None
    /\ completion_list = None
    /\ current_completions = <<>>
    /\ alive = {}
    /\ listbox = [w \in WinIds |-> EmptyListbox]
    /\ lastOp = [op |-> "init", input |-> "", outcome |-> "done"]
    /\ anchor = NoAnchor
    /\ superseded = None
    /\ downRun = -1
    /\ config = DefaultConfig
    /\ metrics_frame = EmptySidebar
    /\ hints = <<>>
    /\ NewTerminal

(* the bookkeeping every step ends with: the anchor and the run of <Down>   *)
(* are those of the displayed list, and are dropped with it; the editor    *)
(* and the popup write nothing of the analysis                             *)
Ghost(newAnchor, newRun, newSuperseded) ==
    /\ UNCHANGED analysisVars
    /\ UNCHANGED terminalVars
    /\ superseded' = IF completion_list' # None /\ completion_list' \in alive'
                     THEN newSuperseded ELSE None
    /\ anchor' = IF completion_list' # None /\ completion_list' \in alive'
                 THEN newAnchor ELSE NoAnchor
    /\ downRun' = IF completion_list' # None /\ completion_list' \in alive'
                  THEN newRun ELSE -1

Ended(op, given, outcome) ==
    lastOp' = [op |-> op, input |-> given, outcome |-> outcome]

---------------------------------------------------------------------------
(* The editor widget: a tab is selected, the user moves the cursor, types *)

(* new_file / on_tab_changed: the selected tab becomes self.current_editor *)
OnTabChanged ==
    /\ ~current_editor
    /\ current_editor' = TRUE
    /\ Ended("on_tab_changed", "", "done")
    /\ UNCHANGED <<buffer, caret, completion_window, completion_list,
                   current_completions, alive, listbox>>
    /\ Ghost(anchor, -1, superseded)

(* the user puts the cursor somewhere else (mouse click, arrow keys) *)
MoveCaret(l, c) ==
    /\ current_editor
    /\ l \in 1..Len(buffer)
    /\ c \in 0..Len(buffer[l])
    /\ [line |-> l, col |-> c] # caret
    /\ caret' = [line |-> l, col |-> c]
    /\ Ended("edit", "", "done")
    /\ UNCHANGED <<current_editor, buffer, completion_window, completion_list,
                   current_completions, alive, listbox>>
    /\ Ghost(anchor, -1, superseded)

(* the user types a character at the cursor *)
TypeChar(ch) ==
    /\ current_editor
    /\ TextSize(buffer) < MaxChars
    /\ buffer' = [buffer EXCEPT ![caret.line] =
                     Take(@, caret.col) \o <<ch>> \o Drop(@, caret.col)]
    /\ caret' = [caret EXCEPT !.col = @ + 1]
    /\ Ended("edit", "", "done")
    /\ UNCHANGED <<current_editor, completion_window, completion_list,
                   current_completions, alive, listbox>>
    /\ Ghost(anchor, -1, superseded)

(* the user types <Return> in the editor: the line is split at the cursor *)
TypeNewline ==
    /\ current_editor
    /\ TextSize(buffer) < MaxChars
    /\ buffer' = Take(buffer, caret.line - 1)
                   \o << Take(buffer[caret.line], caret.col),
                         Drop(buffer[caret.line], caret.col) >>
                   \o Drop(buffer, caret.line)
    /\ caret' = [line |-> caret.line + 1, col |-> 0]
    /\ Ended("edit", "", "done")
    /\ UNCHANGED <<current_editor, completion_window, completion_list,
                   current_completions, alive, listbox>>
    /\ Ghost(anchor, -1, superseded)

---------------------------------------------------------------------------
(* show_completions *)

(* if not completions: return "break" *)
NoCompletionsNeverReturns(completions) == FALSE
NoCompletions(completions) == completions = <<>>

(* if hasattr(self, 'completion_window') and self.completion_window: destroy() *)
KeepOldWindow(al) == al
DestroyOldWindow(al) ==
    IF completion_window # None THEN DestroyAlive(al, completion_window) ELSE al

(* the except branch: the window the IDE refers to is destroyed and forgotten *)
ExceptKeepsWindow(al, window) == al
ExceptDestroysWindow(al, window) ==
    IF window # None THEN DestroyAlive(al, window) ELSE al

(* if self.completion_list.size() > 0: select_set(0) *)
FirstSelectionNone(size) == {}
FirstSelection(size) == IF size > 0 THEN {0} ELSE {}

ShowCompletions(fault, completions) ==
    /\ Ended("show_completions",
             IF fault = "provider" THEN "provider raises"
             ELSE IF completions = <<>> THEN "no candidates"
             ELSE IF fault = "none" THEN "candidates"
             ELSE fault,
             "break")
    /\ IF ~current_editor
       THEN /\ UNCHANGED <<current_editor, buffer, caret, completion_window,
                           completion_list, current_completions, alive, listbox>>
            /\ Ghost(anchor, -1, superseded)
       ELSE IF fault = "provider"
       THEN \* jedi raised before anything was touched
            /\ alive' = ExceptDestroysWindow(alive, completion_window)
            /\ listbox' = DestroyListbox(listbox, completion_window)
            /\ completion_window' = None
            /\ UNCHANGED <<current_editor, buffer, caret, completion_list,
                           current_completions>>
            /\ Ghost(anchor, -1, superseded)
       ELSE IF NoCompletions(completions)
       THEN /\ UNCHANGED <<current_editor, buffer, caret, completion_window,
                           completion_list, current_completions, alive, listbox>>
            /\ Ghost(anchor, -1, superseded)
       ELSE LET afterOld == DestroyOldWindow(alive)
                lbOld == IF afterOld = alive THEN listbox
                         ELSE DestroyListbox(listbox, completion_window)
                w == NewName(afterOld)
                line == Take(buffer[caret.line], caret.col)
            IN /\ FreeNames(afterOld) # {}
               /\ UNCHANGED <<current_editor, buffer, caret>>
               /\ IF fault = "bbox"
                  THEN \* the new Toplevel exists, no Listbox yet
                       /\ alive' = ExceptDestroysWindow(afterOld \cup {w}, w)
                       /\ listbox' = lbOld
                       /\ completion_window' = None
                       /\ UNCHANGED <<completion_list, current_completions>>
                       /\ Ghost(anchor, -1, superseded)
                  ELSE IF fault = "type"
                  THEN \* the Listbox exists and the completions are stored
                       /\ alive' = ExceptDestroysWindow(afterOld \cup {w}, w)
                       /\ listbox' = lbOld
                       /\ completion_window' = None
                       /\ completion_list' = w
                       /\ current_completions' = <<completions>>
                       /\ Ghost(anchor, -1, superseded)
                  ELSE /\ alive' = afterOld \cup {w}
                       /\ listbox' = [lbOld EXCEPT ![w] =
                              [items |-> Rows(completions),
                               sel |-> FirstSelection(Len(completions))]]
                       /\ completion_window' = w
                       /\ completion_list' = w
                       /\ current_completions' = <<completions>>
                       /\ Ghost([line |-> caret.line, col |-> caret.col,
                                 word_start |-> WordStart(line)], 0,
                             IF completion_list # None /\ completion_list \in alive
                             THEN completion_list ELSE None)

---------------------------------------------------------------------------
(* _navigate_completions *)

Keysyms == {"Up", "Down", "Prior", "Next", "Home"}

(* the row a key moves the selection to *)
NewRowWrapping(keysym, current, size) ==
    CASE keysym = "Up" -> IF current = 0 THEN size - 1 ELSE current - 1
      [] keysym = "Down" -> IF current = size - 1 THEN 0 ELSE current + 1
      [] keysym = "Prior" -> Larger(0, current - PageStep)
      [] keysym = "Next" -> Smaller(size - 1, current + PageStep)
NewRow(keysym, current, size) ==
    CASE keysym = "Up" -> Larger(0, current - 1)
      [] keysym = "Down" -> Smaller(size - 1, current + 1)
      [] keysym = "Prior" -> Larger(0, current - PageStep)
      [] keysym = "Next" -> Smaller(size - 1, current + PageStep)

(* select_clear(0, END); select_set(new) *)
SelectAlso(old, new) == old \cup {new}
SelectOnly(old, new) == {new}

(* if not hasattr(self, 'completion_list') or not self.completion_list: return *)
NavigateGuardMissing == FALSE
NavigateHasNoList == completion_list = None

NavigateCompletions(keysym) ==
    /\ UNCHANGED <<current_editor, buffer, caret, completion_window,
                   completion_list, current_completions, alive>>
    /\ IF NavigateHasNoList
       THEN /\ Ended("_navigate_completions", "", "return")
            /\ UNCHANGED listbox
            /\ Ghost(anchor, -1, superseded)
       ELSE IF completion_list \notin alive
       THEN \* curselection() on a destroyed Listbox
            /\ Ended("_navigate_completions", "", "TclError")
            /\ UNCHANGED listbox
            /\ Ghost(anchor, -1, superseded)
       ELSE LET current == listbox[completion_list].sel
                size == Len(listbox[completion_list].items)
            IN IF current = {}
               THEN /\ Ended("_navigate_completions", "", "return")
                    /\ listbox' = [listbox EXCEPT ![completion_list].sel = @ \cup {0}]
                    /\ Ghost(anchor, -1, superseded)
               ELSE IF keysym \notin {"Up", "Down", "Prior", "Next"}
               THEN /\ Ended("_navigate_completions", "", "return")
                    /\ UNCHANGED listbox
                    /\ Ghost(anchor, -1, superseded)
               ELSE /\ Ended("_navigate_completions", "", "return")
                    /\ listbox' = [listbox EXCEPT ![completion_list].sel =
                           SelectOnly(@, NewRow(keysym, MinOf(current), size))]
                    /\ Ghost(anchor,
                             IF keysym = "Down" /\ downRun >= 0
                             THEN Smaller(downRun + 1, MaxCands + 1) ELSE -1,
                             superseded)

---------------------------------------------------------------------------
(* insert_completion *)

(* the text put in place of the current word: completion.complete *)
InsertedText(completion) == completion.complete

(* the line after delete(start_pos, cursor_pos); insert(start_pos, text) *)
SpliceWholeLine(full, column, word_start, text) == text \o Drop(full, column)
Splice(full, column, word_start, text) ==
    Take(full, word_start) \o text \o Drop(full, column)

(* the closing of the popup at the end of insert_completion *)
InsertKeepsWindow(al) == al
InsertDestroysWindow(al) ==
    IF completion_window # None THEN DestroyAlive(al, completion_window) ELSE al

(* if not hasattr(self, 'completion_list') or not self.completion_list: return *)
InsertGuardMissing == FALSE
InsertHasNoList == completion_list = None

InsertCompletion ==
    IF InsertHasNoList
    THEN /\ Ended("insert_completion", "", "return")
         /\ UNCHANGED <<current_editor, buffer, caret, completion_window,
                        completion_list, current_completions, alive, listbox>>
         /\ Ghost(anchor, -1, superseded)
    ELSE IF completion_list \notin alive
    THEN \* curselection() on a destroyed Listbox
         /\ Ended("insert_completion", "", "TclError")
         /\ UNCHANGED <<current_editor, buffer, caret, completion_window,
                        completion_list, current_completions, alive, listbox>>
         /\ Ghost(anchor, -1, superseded)
    ELSE IF listbox[completion_list].sel = {}
    THEN /\ Ended("insert_completion", "", "return")
         /\ UNCHANGED <<current_editor, buffer, caret, completion_window,
                        completion_list, current_completions, alive, listbox>>
         /\ Ghost(anchor, -1, superseded)
    ELSE IF current_completions = <<>>
    THEN /\ Ended("insert_completion", "", "AttributeError")
         /\ UNCHANGED <<current_editor, buffer, caret, completion_window,
                        completion_list, current_completions, alive, listbox>>
         /\ Ghost(anchor, -1, superseded)
    ELSE IF Selected >= Len(current_completions[1])
    THEN /\ Ended("insert_completion", "", "IndexError")
         /\ UNCHANGED <<current_editor, buffer, caret, completion_window,
                        completion_list, current_completions, alive, listbox>>
         /\ Ghost(anchor, -1, superseded)
    ELSE LET completion == current_completions[1][Selected + 1]
             full == buffer[caret.line]
             line == Take(full, caret.col)
             word_start == WordStart(line)
             text == InsertedText(completion)
             after == [buffer EXCEPT ![caret.line] =
                          Splice(full, caret.col, word_start, text)]
         IN /\ TextSize(after) <= MaxChars
            /\ Ended("insert_completion", "", "done")
            /\ buffer' = after
            /\ caret' = [caret EXCEPT !.col = word_start + Len(text)]
            /\ alive' = InsertDestroysWindow(alive)
            /\ listbox' = IF alive' = alive THEN listbox
                          ELSE DestroyListbox(listbox, completion_window)
            /\ completion_window' = None
            /\ UNCHANGED <<current_editor, completion_list, current_completions>>
            /\ Ghost(anchor, -1, superseded)

---------------------------------------------------------------------------
(* <Escape>: lambda e: self.completion_window.destroy() *)

EscapeKeepsWindow(al) == al
EscapeDestroysWindow(al) == DestroyAlive(al, completion_window)

CloseWindow ==
    /\ UNCHANGED <<current_editor, buffer, caret, completion_window,
                   completion_list, current_completions>>
    /\ IF completion_window = None
       THEN \* None has no destroy()
            /\ Ended("escape", "", "AttributeError")
            /\ UNCHANGED <<alive, listbox>>
            /\ Ghost(anchor, -1, superseded)
       ELSE /\ Ended("escape", "", "done")
            /\ alive' = EscapeDestroysWindow(alive)
            /\ listbox' = IF alive' = alive THEN listbox
                          ELSE DestroyListbox(listbox, completion_window)
            /\ Ghost(anchor, -1, superseded)

---------------------------------------------------------------------------
(* A key pressed in the Listbox that the displayed one replaced.  Tk runs *)
(* the bindings of a widget (<Return>, <Escape>, <Up>, <Down>, <Prior>,    *)
(* <Next>, set in show_completions) only while the widget exists: a key    *)
(* addressed to a destroyed Listbox runs nothing and raises nothing.       *)

ListKeys == {"Return", "Escape", "Up", "Down", "Prior", "Next"}

KeyInSupersededList(key) ==
    /\ superseded # None
    /\ IF superseded \in alive
       THEN CASE key = "Return" -> InsertCompletion
              [] key = "Escape" -> CloseWindow
              [] OTHER -> NavigateCompletions(key)
       ELSE /\ Ended("key", "", "not delivered")
            /\ UNCHANGED <<current_editor, buffer, caret, completion_window,
                           completion_list, current_completions, alive, listbox>>
            /\ Ghost(anchor, -1, superseded)

---------------------------------------------------------------------------

Next ==
    \/ OnTabChanged
    \/ \E l \in 1..(MaxChars + 1), c \in 0..MaxChars : MoveCaret(l, c)
    \/ \E ch \in Alphabet : TypeChar(ch)
    \/ TypeNewline
    \/ \E completions \in ProviderAnswers(buffer, caret.line, caret.col) :
         \E fault \in (IF completions = <<>> THEN {"none", "provider"} ELSE Faults \ {"provider"}) :
            ShowCompletions(fault, completions)
    \/ \E keysym \in Keysyms : NavigateCompletions(keysym)
    \/ InsertCompletion
    \/ CloseWindow
    \/ \E key \in ListKeys : KeyInSupersededList(key)

Spec == Init /\ [][Next]_vars

---------------------------------------------------------------------------
(* Python text.  A line of the editor is [indent, form]: `indent` levels   *)
(* of four spaces followed by the text of the statement form.  The text of *)
(* a form is a sequence of lexemes, cut so that no string the code looks   *)
(* for ('def ', '==', '(' ...) straddles two of them.                      *)

HintThreshold == 20    \* show_educational_hints: if len(node.body) > 20

Repeat(x, n) == [i \in 1..n |-> x]

(* one node of the syntax tree, with what the code reads of it: its type,  *)
(* len(node.body), what body[0] is for ast.get_docstring ("text": a string *)
(* literal, "blank": a string literal of whitespace only, "none": anything *)
(* else), and len(node.values) of a BoolOp                                 *)
Node(type, body, first, values) ==
    [type |-> type, body |-> body, first |-> first, values |-> values]

Leaf(type) == Node(type, 0, "none", 0)

(* "pass; pass; ...; pass": n statements on one line *)
PassText(n) == [i \in 1..(2 * n - 1) |-> IF i % 2 = 1 THEN "pass" ELSE "; "]

(* what a line of a form is to the parser: its text; its syntax ("simple": *)
(* a complete statement, "block": a header that needs an indented body,    *)
(* "ignored": blank or comment, "error": no statement at all); the part it *)
(* plays in a try statement; the number of statements it adds to the body  *)
(* it stands in and what the first of them is for get_docstring; and its   *)
(* nodes, the statement first                                              *)
Form(name) ==
    CASE name = "blank" ->
           [text |-> <<>>, syntax |-> "ignored", clause |-> "none",
            count |-> 0, first |-> "none", nodes |-> <<>>]
      [] name = "comment" ->
           [text |-> <<"#", " ", "note">>, syntax |-> "ignored", clause |-> "none",
            count |-> 0, first |-> "none", nodes |-> <<>>]
      [] name = "pass" ->
           [text |-> <<"pass">>, syntax |-> "simple", clause |-> "none",
            count |-> 1, first |-> "none", nodes |-> <<Leaf("Pass")>>]
      [] name = "pass21" ->
           [text |-> PassText(HintThreshold + 1), syntax |-> "simple", clause |-> "none",
            count |-> HintThreshold + 1, first |-> "none",
            nodes |-> Repeat(Leaf("Pass"), HintThreshold + 1)]
      [] name = "pass20" ->
           [text |-> PassText(HintThreshold), syntax |-> "simple", clause |-> "none",
            count |-> HintThreshold, first |-> "none",
            nodes |-> Repeat(Leaf("Pass"), HintThreshold)]
      [] name = "docstring" ->
           [text |-> <<"\"\"\"", "doc", "\"\"\"">>, syntax |-> "simple", clause |-> "none",
            count |-> 1, first |-> "text",
            nodes |-> <<Leaf("Expr"), Leaf("Constant")>>]
      [] name = "blank_docstring" ->
           [text |-> <<"\"", "  ", "\"">>, syntax |-> "simple", clause |-> "none",
            count |-> 1, first |-> "blank",
            nodes |-> <<Leaf("Expr"), Leaf("Constant")>>]
      [] name = "def1" ->
           [text |-> <<"def ", "one", "(", ")", ":", " ", "pass">>,
            syntax |-> "simple", clause |-> "none", count |-> 1, first |-> "none",
            nodes |-> <<Node("FunctionDef", 1, "none", 0), Leaf("arguments"),
                        Leaf("Pass")>>]
      [] name = "def" ->
           [text |-> <<"def ", "foo", "(", ")", ":">>, syntax |-> "block", clause |-> "none",
            count |-> 1, first |-> "none",
            nodes |-> <<Leaf("FunctionDef"), Leaf("arguments")>>]
      [] name = "def21" ->
           [text |-> <<"def ", "big", "(", ")", ":", " ">> \o PassText(HintThreshold + 1),
            syntax |-> "simple", clause |-> "none", count |-> 1, first |-> "none",
            nodes |-> <<Node("FunctionDef", HintThreshold + 1, "none", 0),
                        Leaf("arguments")>> \o Repeat(Leaf("Pass"), HintThreshold + 1)]
      [] name = "def20" ->
           [text |-> <<"def ", "mid", "(", ")", ":", " ">> \o PassText(HintThreshold),
            syntax |-> "simple", clause |-> "none", count |-> 1, first |-> "none",
            nodes |-> <<Node("FunctionDef", HintThreshold, "none", 0),
                        Leaf("arguments")>> \o Repeat(Leaf("Pass"), HintThreshold)]
      [] name = "class" ->
           [text |-> <<"class ", "C", ":">>, syntax |-> "block", clause |-> "none",
            count |-> 1, first |-> "none", nodes |-> <<Leaf("ClassDef")>>]
      [] name = "for" ->
           [text |-> <<"for ", "x", " in ", "y", ":", " ", "pass">>,
            syntax |-> "simple", clause |-> "none", count |-> 1, first |-> "none",
            nodes |-> <<Node("For", 1, "none", 0), Leaf("Name"), Leaf("Name"),
                        Leaf("Pass")>>]
      [] name = "while" ->
           [text |-> <<"while ", "x", ":", " ", "pass">>,
            syntax |-> "simple", clause |-> "none", count |-> 1, first |-> "none",
            nodes |-> <<Node("While", 1, "none", 0), Leaf("Name"), Leaf("Pass")>>]
      [] name = "try" ->
           [text |-> <<"try", ":", " ", "pass">>,
            syntax |-> "simple", clause |-> "try", count |-> 1, first |-> "none",
            nodes |-> <<Node("Try", 1, "none", 0), Leaf("Pass")>>]
      [] name = "except" ->
           [text |-> <<"except", ":", " ", "pass">>,
            syntax |-> "simple", clause |-> "except", count |-> 0, first |-> "none",
            nodes |-> <<Node("ExceptHandler", 1, "none", 0), Leaf("Pass")>>]
      [] name = "with" ->
           [text |-> <<"with ", "x", ":", " ", "pass">>,
            syntax |-> "simple", clause |-> "none", count |-> 1, first |-> "none",
            nodes |-> <<Node("With", 1, "none", 0), Leaf("withitem"), Leaf("Name"),
                        Leaf("Pass")>>]
      [] name = "assert_and3" ->
           [text |-> <<"assert ", "a", " and ", "b", " and ", "c">>,
            syntax |-> "simple", clause |-> "none", count |-> 1, first |-> "none",
            nodes |-> <<Leaf("Assert"), Node("BoolOp", 0, "none", 3), Leaf("Name"),
                        Leaf("Name"), Leaf("Name")>>]
      [] name = "assign_or" ->
           [text |-> <<"x", " ", "=", " ", "a", " or ", "b">>,
            syntax |-> "simple", clause |-> "none", count |-> 1, first |-> "none",
            nodes |-> <<Leaf("Assign"), Leaf("Name"), Node("BoolOp", 0, "none", 2),
                        Leaf("Name"), Leaf("Name")>>]
      [] name = "from_import" ->
           [text |-> <<"from ", "os", " ", "import ", "path">>,
            syntax |-> "simple", clause |-> "none", count |-> 1, first |-> "none",
            nodes |-> <<Leaf("ImportFrom"), Leaf("alias")>>]
      [] name = "import" ->
           [text |-> <<"import ", "os">>, syntax |-> "simple", clause |-> "none",
            count |-> 1, first |-> "none", nodes |-> <<Leaf("Import"), Leaf("alias")>>]
      [] name = "assign" ->
           [text |-> <<"x", " ", "=", " ", "f", "(", ")">>,
            syntax |-> "simple", clause |-> "none", count |-> 1, first |-> "none",
            nodes |-> <<Leaf("Assign"), Leaf("Name"), Leaf("Call"), Leaf("Name")>>]
      [] name = "if" ->
           [text |-> <<"if ", "x", " ", "==", " ", "1", ":", " ", "pass">>,
            syntax |-> "simple", clause |-> "none", count |-> 1, first |-> "none",
            nodes |-> <<Node("If", 1, "none", 0), Leaf("Compare"), Leaf("Name"),
                        Leaf("Constant"), Leaf("Pass")>>]
      [] name = "call" ->
           [text |-> <<"f", "(", ")">>, syntax |-> "simple", clause |-> "none",
            count |-> 1, first |-> "none",
            nodes |-> <<Leaf("Expr"), Leaf("Call"), Leaf("Name")>>]
      [] name = "unfinished" ->
           [text |-> <<"def ", "(">>, syntax |-> "error", clause |-> "none",
            count |-> 0, first |-> "none", nodes |-> <<>>]

FourSpaces == "    "
Whitespace == {FourSpaces, " "}

(* the text of a line of the editor *)
LineText(line) == Repeat(FourSpaces, line.indent) \o Form(line.form).text

(* `needle in lexeme`: the lexemes that contain one of the strings looked  *)
(* for without being it                                                    *)
Within == {<<"=", "==">>}
Has(lexeme, needle) == lexeme = needle \/ <<needle, lexeme>> \in Within

(* `needle in text` *)
In(needle, text) == \E k \in 1..Len(text) : Has(text[k], needle)

(* str.strip(), str.startswith() *)
RECURSIVE lstrip(_)
lstrip(text) ==
    IF text # <<>> /\ Head(text) \in Whitespace THEN lstrip(Tail(text)) ELSE text
RECURSIVE rstrip(_)
rstrip(text) ==
    IF text # <<>> /\ text[Len(text)] \in Whitespace
    THEN rstrip(Take(text, Len(text) - 1)) ELSE text
strip(text) == rstrip(lstrip(text))
startswith(text, prefix) == text # <<>> /\ Head(text) = prefix

(* Text.get("1.0", END): every line of the editor followed by a newline.   *)
(* A text is the lines that end with a newline and what follows the last   *)
(* newline.                                                                *)
GetAll(lines) == [ended |-> lines, rest |-> <<>>]

(* Text.get("L.0", "L.end") *)
GetFirstLine(lines, l) == LineText(lines[1])
GetLine(lines, l) == LineText(lines[l])

(* str.split('\n'): the lines, and what follows the last newline, which   *)
(* is the empty string when the text ends with a newline                   *)
SplitOnNewline(code_text) ==
    code_text.ended \o (IF code_text.rest = <<>>
                        THEN <<[indent |-> 0, form |-> "blank"]>>
                        ELSE code_text.rest)

SplitKeepingLastPiece(code_text) == SplitOnNewline(code_text)

(* str.splitlines(): the lines, and the rest when there is one *)
splitlines(code_text) == code_text.ended \o code_text.rest

---------------------------------------------------------------------------
(* ast.parse: the statements are grouped into blocks by their indentation. *)
(* The parser reads the lines in order, keeping the stack of the blocks    *)
(* that are open (Module first) with, for each, the node that owns it and  *)
(* the try clause its last statement was.                                  *)

ParseStart ==
    [ok |-> TRUE,
     nodes |-> <<Leaf("Module")>>,
     stack |-> <<[indent |-> 0, owner |-> 1, last |-> "none"]>>,
     expect |-> 0]      \* the header whose indented body has to come next

SyntaxError(st) == [st EXCEPT !.ok = FALSE]

(* a statement of form f in the innermost open block *)
AddStatement(st, f) ==
    LET depth == Len(st.stack)
        top == st.stack[depth]
        owner == st.nodes[top.owner]
    IN IF f.clause = "except" /\ top.last \notin {"try", "except"}
       THEN SyntaxError(st)     \* except without try
       ELSE IF f.clause # "except" /\ top.last = "try"
       THEN SyntaxError(st)     \* try without except
       ELSE [ok |-> TRUE,
             nodes |-> [st.nodes EXCEPT ![top.owner] =
                           [owner EXCEPT !.body = @ + f.count,
                                         !.first = IF owner.body = 0 /\ f.count > 0
                                                   THEN f.first ELSE @]]
                       \o f.nodes,
             stack |-> [st.stack EXCEPT ![depth].last = f.clause],
             expect |-> IF f.syntax = "block" THEN Len(st.nodes) + 1 ELSE 0]

ParseLine(st, line) ==
    LET f == Form(line.form)
        top == st.stack[Len(st.stack)]
        kept == {k \in 1..Len(st.stack) : st.stack[k].indent <= line.indent}
        closed == (1..Len(st.stack)) \ kept
    IN IF ~st.ok \/ f.syntax = "ignored" THEN st
       ELSE IF f.syntax = "error" THEN SyntaxError(st)
       ELSE IF st.expect # 0
       THEN IF line.indent > top.indent
            THEN AddStatement(
                   [st EXCEPT !.stack = Append(@, [indent |-> line.indent,
                                                   owner |-> st.expect,
                                                   last |-> "none"]),
                              !.expect = 0], f)
            ELSE SyntaxError(st)     \* expected an indented block
       ELSE IF line.indent > top.indent
       THEN SyntaxError(st)          \* unexpected indent
       ELSE IF \/ st.stack[Cardinality(kept)].indent # line.indent
               \/ \E k \in closed : st.stack[k].last = "try"
       THEN SyntaxError(st)          \* no such outer level; try without except
       ELSE AddStatement([st EXCEPT !.stack = Take(@, Cardinality(kept))], f)

RECURSIVE ParseLines(_, _)
ParseLines(st, lines) ==
    IF lines = <<>> THEN st
    ELSE ParseLines(ParseLine(st, Head(lines)), Tail(lines))

(* ast.parse(code_text): [ok |-> FALSE] stands for the SyntaxError raised *)
parse(code_text) ==
    LET st == ParseLines(ParseStart, splitlines(code_text))
    IN IF st.ok /\ st.expect = 0 /\ \A k \in 1..Len(st.stack) : st.stack[k].last # "try"
       THEN [ok |-> TRUE, nodes |-> st.nodes]
       ELSE [ok |-> FALSE, nodes |-> <<>>]

(* ast.walk(tree): every node of the tree once *)
walk(tree) == tree.nodes

(* len([node for node in ast.walk(tree) if isinstance(node, types)]) *)
CountNodesNoImportFrom(tree, types) ==
    Cardinality({k \in 1..Len(walk(tree)) :
                    walk(tree)[k].type \in types \ {"ImportFrom"}})
CountNodes(tree, types) ==
    Cardinality({k \in 1..Len(walk(tree)) : walk(tree)[k].type \in types})

---------------------------------------------------------------------------
(* CodeAnalyzer *)

(* _count_comments *)
count_comments(code_text) ==
    LET lines == splitlines(code_text)
    IN Cardinality({k \in 1..Len(lines) : startswith(strip(LineText(lines[k])), "#")})

(* _count_docstrings: ast.get_docstring(node) is the cleaned docstring, an *)
(* empty string when the literal is blank                                  *)
count_docstrings(tree) ==
    Cardinality({k \in 1..Len(walk(tree)) :
                    /\ walk(tree)[k].type \in {"FunctionDef", "ClassDef", "Module"}
                    /\ walk(tree)[k].first = "text"})

(* _calculate_complexity *)
RECURSIVE SumComplexity(_)
SumComplexity(nodes) ==
    IF nodes = <<>> THEN 0
    ELSE (IF Head(nodes).type \in {"If", "While", "For", "Try", "ExceptHandler",
                                  "With", "Assert"}
          THEN 1
          ELSE IF Head(nodes).type = "BoolOp" THEN Head(nodes).values - 1
          ELSE 0) + SumComplexity(Tail(nodes))
RECURSIVE SumOperands(_)
SumOperands(nodes) ==
    IF nodes = <<>> THEN 0
    ELSE (IF Head(nodes).type \in {"If", "While", "For", "Try", "ExceptHandler",
                                  "With", "Assert"}
          THEN 1
          ELSE IF Head(nodes).type = "BoolOp" THEN Head(nodes).values
          ELSE 0) + SumOperands(Tail(nodes))
ComplexityAtMostOne(tree) == Smaller(SumComplexity(walk(tree)), 1)
ComplexityWithOperands(tree) == SumOperands(walk(tree))
calculate_complexity(tree) == SumComplexity(walk(tree))

(* a dict is the sequence of its items, in insertion order *)
Item(key, value) == [key |-> key, value |-> value]
EmptyDict == <<>>
Get(dict, key, default) ==
    IF \E k \in 1..Len(dict) : dict[k].key = key
    THEN dict[CHOOSE k \in 1..Len(dict) : dict[k].key = key].value
    ELSE default
Values(dict) == {dict[k].value : k \in 1..Len(dict)}

(* analyze_code: the dict of the seven metrics, {} when anything raised *)
analyze_code(code_text) ==
    LET tree == parse(code_text)
    IN IF ~tree.ok THEN EmptyDict
       ELSE << Item("loc", Len(splitlines(code_text))),
               Item("functions", CountNodes(tree, {"FunctionDef"})),
               Item("classes", CountNodes(tree, {"ClassDef"})),
               Item("imports", CountNodes(tree, {"Import", "ImportFrom"})),
               Item("comments", count_comments(code_text)),
               Item("docstrings", count_docstrings(tree)),
               Item("complexity", calculate_complexity(tree)) >>

---------------------------------------------------------------------------
(* update_metrics and update_metrics_visualization *)

(* the suggestions: complexity > 10, loc > 300 *)
Suggestions(metrics) ==
    (IF Get(metrics, "complexity", 0) > 10
     THEN <<"High complexity detected. Consider breaking down functions.">> ELSE <<>>)
    \o (IF Get(metrics, "loc", 0) > 300
        THEN <<"Large file size. Consider splitting into modules.">> ELSE <<>>)

(* max(metrics.values()) *)
MaxOf(S) == CHOOSE x \in S : \A y \in S : x >= y

(* the bar of the i-th item (i from 0): its left edge, and its height      *)
(* (value / max_value) * 150 as the fraction num / den                     *)
Bar(i, item, max_value) ==
    [x |-> 30 + i * 50, label |-> item.key,
     num |-> item.value * 150, den |-> max_value]

UpdateMetrics ==
    /\ UNCHANGED <<current_editor, buffer, caret, completion_window,
                   completion_list, current_completions, alive, listbox,
                   anchor, superseded, downRun, config, hints, terminalVars>>
    /\ IF ~current_editor
       THEN /\ Ended("update_metrics", "", "return")
            /\ UNCHANGED metrics_frame
       ELSE LET code == GetAll(buffer)
                metrics == analyze_code(code)
                shown == [metrics_frame EXCEPT
                             !.metrics_text = metrics,
                             !.suggestions_text = Suggestions(metrics),
                             !.viz_canvas = <<>>]
            IN IF Values(metrics) = {}
               THEN \* max() of an empty sequence
                    /\ Ended("update_metrics", "", "ValueError")
                    /\ metrics_frame' = shown
               ELSE IF MaxOf(Values(metrics)) = 0
               THEN \* value / max_value
                    /\ Ended("update_metrics", "", "ZeroDivisionError")
                    /\ metrics_frame' = shown
               ELSE /\ Ended("update_metrics", "", "done")
                    /\ metrics_frame' = [shown EXCEPT !.viz_canvas =
                           [k \in 1..Len(metrics) |->
                               Bar(k - 1, metrics[k], MaxOf(Values(metrics)))]]

---------------------------------------------------------------------------
(* show_educational_hints *)

FunctionTips == "Function Tips"
ClassTips == "Class Tips"
LoopTips == "Loop Tips"
ExceptionTips == "Exception Tips"
ImportTips == "Import Tips"
VariableTips == "Variable Tips"
ConditionTips == "Condition Tips"
FunctionCallTips == "Function Call Tips"
ComplexityTips == "Complexity Tips"
BestPractices == "Best Practices"

(* the tests of the if / elif chain on the text of the cursor line *)
Matches(rule, line) ==
    CASE rule = "function-def" -> startswith(strip(line), "def ")
      [] rule = "class-def" -> startswith(strip(line), "class ")
      [] rule = "loop" -> In("for ", line) \/ In("while ", line)
      [] rule = "exception" -> In("try", line)
      [] rule = "import" -> In("import ", line)
      [] rule = "assignment" -> In("=", line) /\ ~In("==", line)
      [] rule = "conditional" -> In("if ", line)
      [] rule = "call" -> In("(", line) /\ ~In("def ", line)

(* the if / elif chain *)
LineShapeCallBeforeVariable(line) ==
    IF Matches("function-def", line) THEN <<FunctionTips>>
    ELSE IF Matches("class-def", line) THEN <<ClassTips>>
    ELSE IF Matches("loop", line) THEN <<LoopTips>>
    ELSE IF Matches("exception", line) THEN <<ExceptionTips>>
    ELSE IF Matches("import", line) THEN <<ImportTips>>
    ELSE IF Matches("call", line) THEN <<FunctionCallTips>>
    ELSE IF Matches("assignment", line) THEN <<VariableTips>>
    ELSE IF Matches("conditional", line) THEN <<ConditionTips>>
    ELSE <<>>
LineShapeHints(line) ==
    IF Matches("function-def", line) THEN <<FunctionTips>>
    ELSE IF Matches("class-def", line) THEN <<ClassTips>>
    ELSE IF Matches("loop", line) THEN <<LoopTips>>
    ELSE IF Matches("exception", line) THEN <<ExceptionTips>>
    ELSE IF Matches("import", line) THEN <<ImportTips>>
    ELSE IF Matches("assignment", line) THEN <<VariableTips>>
    ELSE IF Matches("conditional", line) THEN <<ConditionTips>>
    ELSE IF Matches("call", line) THEN <<FunctionCallTips>>
    ELSE <<>>

(* for node in ast.walk(tree): a FunctionDef with len(node.body) > 20 *)
RECURSIVE ComplexityHintsFrom20(_)
ComplexityHintsFrom20(nodes) ==
    IF nodes = <<>> THEN <<>>
    ELSE (IF Head(nodes).type = "FunctionDef" /\ Head(nodes).body >= HintThreshold
          THEN <<ComplexityTips>> ELSE <<>>) \o ComplexityHintsFrom20(Tail(nodes))
RECURSIVE ComplexityHints(_)
ComplexityHints(nodes) ==
    IF nodes = <<>> THEN <<>>
    ELSE (IF Head(nodes).type = "FunctionDef" /\ Head(nodes).body > HintThreshold
          THEN <<ComplexityTips>> ELSE <<>>) \o ComplexityHints(Tail(nodes))

(* hints.append(best practices), the last statement of the try block *)
BestPracticesUnlessOthers(found) ==
    IF found = <<>> THEN <<BestPractices>> ELSE found
WithBestPractices(found) == Append(found, BestPractices)

(* what `hints` holds when ast.parse raises: the list as it was before it *)
ShapeBeforeParse(line) == LineShapeHints(line)
HintsBeforeParse(line) == <<>>

ShowEducationalHints ==
    /\ UNCHANGED <<current_editor, buffer, caret, completion_window,
                   completion_list, current_completions, alive, listbox,
                   anchor, superseded, downRun, config, metrics_frame, terminalVars>>
    /\ IF ~current_editor \/ ~config.educational_hints
       THEN /\ Ended("show_educational_hints", "", "return")
            /\ UNCHANGED hints
       ELSE LET line == GetLine(buffer, caret.line)
                code == GetAll(buffer)
                tree == parse(code)
            IN /\ Ended("show_educational_hints", "", "done")
               /\ hints' = IF ~tree.ok
                           THEN HintsBeforeParse(line)
                           ELSE WithBestPractices(LineShapeHints(line)
                                                    \o ComplexityHints(walk(tree)))

---------------------------------------------------------------------------
(* The analysis of a text: the program with a file open in the editor and  *)
(* the cursor on one of its lines.                                         *)

MaxLines == 2    \* lines of the text

(* the lines a text is made of *)
SourceLines ==
    [indent : {0}, form : {"blank", "comment", "pass", "def", "def21", "class", "for",
                           "while", "try", "except", "import", "assign", "if",
                           "call", "unfinished"}]
    \cup [indent : {1}, form : {"pass", "pass21", "docstring"}]

Sources == UNION {[1..n -> SourceLines] : n \in 1..MaxLines}

AnalysisInit ==
    /\ current_editor \in BOOLEAN
    /\ buffer \in (IF current_editor THEN Sources
                   ELSE {<<[indent |-> 0, form |-> "blank"]>>})
    /\ caret \in [line : 1..Len(buffer), col : {0}]
    /\ config \in [educational_hints : BOOLEAN]
    /\ completion_window = None
    /\ completion_list = None
    /\ current_completions = <<>>
    /\ alive = {}
    /\ listbox = [w \in WinIds |-> EmptyListbox]
    /\ lastOp = [op |-> "init", input |-> "", outcome |-> "done"]
    /\ anchor = NoAnchor
    /\ superseded = None
    /\ downRun = -1
    /\ metrics_frame = EmptySidebar
    /\ hints = <<>>
    /\ NewTerminal

AnalysisNext ==
    \/ UpdateMetrics
    \/ ShowEducationalHints

SpecAnalysis == AnalysisInit /\ [][AnalysisNext]_vars

---------------------------------------------------------------------------
(* The hints while the text is edited: the cursor stays on its line and    *)
(* the user rewrites the other lines; every key released calls             *)
(* show_educational_hints.                                                 *)

HintLines ==
    [indent : {0}, form : {"pass", "def", "def20", "def21", "class", "assign",
                           "unfinished"}]
    \cup [indent : {1}, form : {"pass", "pass20", "pass21", "def21"}]

HintSources == UNION {[1..n -> HintLines] : n \in 1..MaxLines}

(* the user replaces the text of a line the cursor is not on *)
ReplaceOtherLine(l, line) ==
    /\ current_editor
    /\ l \in 1..Len(buffer)
    /\ l # caret.line
    /\ line # buffer[l]
    /\ buffer' = [buffer EXCEPT ![l] = line]
    /\ Ended("edit", "", "done")
    /\ UNCHANGED <<current_editor, caret, completion_window, completion_list,
                   current_completions, alive, listbox>>
    /\ Ghost(anchor, -1, superseded)

(* the user adds a line at the end of the text *)
AppendLine(line) ==
    /\ current_editor
    /\ Len(buffer) < MaxLines
    /\ buffer' = Append(buffer, line)
    /\ Ended("edit", "", "done")
    /\ UNCHANGED <<current_editor, caret, completion_window, completion_list,
                   current_completions, alive, listbox>>
    /\ Ghost(anchor, -1, superseded)

(* the user deletes the last line of the text, the cursor being above it *)
DeleteLastLine ==
    /\ current_editor
    /\ caret.line < Len(buffer)
    /\ buffer' = Take(buffer, Len(buffer) - 1)
    /\ Ended("edit", "", "done")
    /\ UNCHANGED <<current_editor, caret, completion_window, completion_list,
                   current_completions, alive, listbox>>
    /\ Ghost(anchor, -1, superseded)

HintsInit ==
    /\ current_editor = TRUE
    /\ buffer \in HintSources
    /\ caret \in [line : 1..Len(buffer), col : {0}]
    /\ config = DefaultConfig
    /\ completion_window = None
    /\ completion_list = None
    /\ current_completions = <<>>
    /\ alive = {}
    /\ listbox = [w \in WinIds |-> EmptyListbox]
    /\ lastOp = [op |-> "init", input |-> "", outcome |-> "done"]
    /\ anchor = NoAnchor
    /\ superseded = None
    /\ downRun = -1
    /\ metrics_frame = EmptySidebar
    /\ hints = <<>>
    /\ NewTerminal

HintsNext ==
    \/ ShowEducationalHints
    \/ \E l \in 1..MaxLines, line \in HintLines : ReplaceOtherLine(l, line)
    \/ \E line \in HintLines : AppendLine(line)
    \/ DeleteLastLine

SpecHints == HintsInit /\ [][HintsNext]_vars

---------------------------------------------------------------------------
(* The metrics while statements are added to the text: the user refreshes  *)
(* the sidebar, adds an indented line, refreshes again.                    *)

MetricLines ==
    [indent : {0}, form : {"blank", "comment", "docstring", "def", "class", "import",
                           "from_import", "assign_or"}]
    \cup [indent : {1}, form : {"pass", "docstring", "blank_docstring", "def1", "if",
                                "for", "while", "with", "assert_and3", "try",
                                "except"}]

MetricSources == UNION {[1..n -> MetricLines] : n \in 1..MaxLines}

(* the user types a new indented line, which becomes line i of the text *)
InsertStatement(i, line) ==
    /\ current_editor
    /\ lastOp.op = "update_metrics"
    /\ lastOp.outcome = "done"
    /\ Len(buffer) <= MaxLines
    /\ i \in 1..(Len(buffer) + 1)
    /\ line.indent > 0
    /\ buffer' = Take(buffer, i - 1) \o <<line>> \o Drop(buffer, i - 1)
    /\ caret' = [line |-> i, col |-> 0]
    /\ Ended("insert", line.form, "done")
    /\ UNCHANGED <<current_editor, completion_window, completion_list,
                   current_completions, alive, listbox>>
    /\ Ghost(anchor, -1, superseded)

MetricsInit ==
    /\ current_editor = TRUE
    /\ buffer \in MetricSources
    /\ caret = [line |-> 1, col |-> 0]
    /\ config = DefaultConfig
    /\ completion_window = None
    /\ completion_list = None
    /\ current_completions = <<>>
    /\ alive = {}
    /\ listbox = [w \in WinIds |-> EmptyListbox]
    /\ lastOp = [op |-> "init", input |-> "", outcome |-> "done"]
    /\ anchor = NoAnchor
    /\ superseded = None
    /\ downRun = -1
    /\ metrics_frame = EmptySidebar
    /\ hints = <<>>
    /\ NewTerminal

MetricsNext ==
    \/ UpdateMetrics
    \/ \E i \in 1..(MaxLines + 1), line \in MetricLines : InsertStatement(i, line)

SpecMetrics == MetricsInit /\ [][MetricsNext]_vars

---------------------------------------------------------------------------
(* TerminalEmulator: the Entry, the history of commands and the keys       *)
(* <Return>, <Up> and <Down> bound to the Entry.                           *)

MaxHistory == 3    \* commands the history may hold

(* what the user may have typed into the Entry *)
Typed == {<<>>, <<" ">>, <<"a">>, <<" ", "a">>, <<"a", " ">>, <<"b">>}

(* how the process of a command ends: output shown, or Popen raised *)
ProcessResults == {"output", "Error"}

(* everything the terminal emulator leaves alone *)
ideVars == <<current_editor, buffer, caret, completion_window, completion_list,
             current_completions, alive, listbox, anchor, superseded, downRun,
             config, metrics_frame, hints>>

(* the user edits the text of the Entry *)
TypeInput(text) ==
    /\ text # input
    /\ input' = text
    /\ upRun' = -1
    /\ Ended("type", "", "done")
    /\ UNCHANGED <<history, history_index, output>>
    /\ UNCHANGED ideVars

(* self.history_index = len(self.history) *)
IndexOfLast(h) == Len(h) - 1
IndexAfterLast(h) == Len(h)

ExecuteCommand ==
    LET command == strip(input)
    IN /\ UNCHANGED ideVars
       /\ IF command = <<>>
          THEN /\ Ended("execute_command", "empty", "return")
               /\ upRun' = -1
               /\ UNCHANGED <<history, history_index, input, output>>
          ELSE /\ Len(history) < MaxHistory
               /\ history' = Append(history, command)
               /\ history_index' = IndexAfterLast(history')
               /\ input' = <<>>
               /\ \E result \in ProcessResults :
                     output' = Append(output, [command |-> command, result |-> result])
               /\ upRun' = 0
               /\ Ended("execute_command", "command", "done")

HistoryUp ==
    /\ UNCHANGED ideVars
    /\ UNCHANGED <<history, output>>
    /\ upRun' = IF upRun >= 0 /\ upRun <= MaxHistory THEN upRun + 1 ELSE upRun
    /\ IF history_index > 0
       THEN /\ history_index' = history_index - 1
            /\ input' = history[history_index' + 1]
            /\ Ended("history_up", "", "done")
       ELSE /\ UNCHANGED <<history_index, input>>
            /\ Ended("history_up", "", "return")

HistoryDown ==
    /\ UNCHANGED ideVars
    /\ UNCHANGED <<history, output>>
    /\ upRun' = -1
    /\ IF history_index < Len(history) - 1
       THEN /\ history_index' = history_index + 1
            /\ input' = history[history_index' + 1]
            /\ Ended("history_down", "", "done")
       ELSE /\ UNCHANGED <<history_index, input>>
            /\ Ended("history_down", "", "return")

TerminalNext ==
    \/ \E text \in Typed : TypeInput(text)
    \/ ExecuteCommand
    \/ HistoryUp
    \/ HistoryDown

SpecTerminal == Init /\ [][TerminalNext]_vars

---------------------------------------------------------------------------
(* Vocabulary of the properties *)

Exceptions == {"TclError", "AttributeError", "IndexError", "ValueError",
               "ZeroDivisionError"}

(* the last call raised instead of returning *)
Raised(op) == op.outcome \in Exceptions

Items == listbox[completion_list].items
Selection == listbox[completion_list].sel

(* the completions insert_completion indexes *)
Stored == current_completions[1]

(* everything of the popup and of the text that a call could disturb *)
SessionAndText == <<buffer, caret, completion_window, completion_list,
                    current_completions, alive, listbox>>

OpenStep == lastOp'.op = "show_completions" /\ current_editor
NavigateStep == lastOp'.op = "_navigate_completions"
AcceptStep == lastOp'.op = "insert_completion"
AcceptedStep == AcceptStep /\ lastOp'.outcome = "done"

---------------------------------------------------------------------------
(* C1: every completion request, whatever the provider returns for it (one *)
(* or more candidates, none, a failure), leaves the list that was on       *)
(* screen before it destroyed, and at most one list exists afterwards.     *)
C1_OpenDiscardsPrevious ==
    [][OpenStep => (alive \cap alive' = {} /\ Cardinality(alive') <= 1)]_vars

---------------------------------------------------------------------------
---------------------------------------------------------------------------
(* C3: with the cursor still where the list was requested, accept replaces *)
(* the characters from wordStart up to the cursor by the full name of the  *)
(* selected candidate.                                                     *)
C3_AcceptInsertsFullName ==
    [][(AcceptedStep /\ caret.line = anchor.line /\ caret.col = anchor.col
          /\ WordStart(Take(buffer[caret.line], caret.col)) = anchor.word_start) =>
          buffer' = [buffer EXCEPT ![anchor.line] =
                        Take(@, anchor.word_start)
                          \o Stored[Selected + 1].name
                          \o Drop(@, anchor.col)]]_vars

---------------------------------------------------------------------------
(* C4: the span accept replaces is the one recorded when the list was      *)
(* requested: it lies on the anchor line, starts at the anchor's wordStart *)
(* and ends at the anchor column, wherever the cursor is by then.          *)
C4_AcceptUsesAnchor ==
    [][AcceptedStep =>
          buffer' = [buffer EXCEPT ![anchor.line] =
                        Take(@, anchor.word_start)
                          \o InsertedText(Stored[Selected + 1])
                          \o Drop(@, anchor.col)]]_vars

---------------------------------------------------------------------------
(* C5: a request for which the provider returns no candidate creates no    *)
(* window and no list and stores nothing: the popup attributes, the stored *)
(* completions and the windows are what they were, and starting from no    *)
(* list at all there is none afterwards.                                   *)
C5_ZeroCandidatesOpenNothing ==
    [][(OpenStep /\ lastOp'.input = "no candidates") =>
          /\ UNCHANGED <<completion_window, completion_list, current_completions,
                         alive, listbox>>
          /\ lastOp'.outcome = "break"
          /\ (completion_list = None => (alive' = {} /\ current_completions' = <<>>))]_vars

(* a request without candidates, made before any list existed *)
C5_Witness ==
    /\ lastOp.op = "show_completions"
    /\ lastOp.input = "no candidates"
    /\ current_editor
    /\ completion_list = None
    /\ alive = {}

---------------------------------------------------------------------------
---------------------------------------------------------------------------
(* C7, as claimed: a key addressed to the list that a second request       *)
(* replaced fails with an error.                                           *)
C7_KeyInSupersededRaises ==
    lastOp.op = "key" => Raised(lastOp)

(* C7, amended: the list that a second request replaced is destroyed, so   *)
(* a key addressed to it reaches no handler: nothing is raised and the     *)
(* selection, the candidates and the text of the second request are        *)
(* unchanged.                                                              *)
C7_SupersededIsDead ==
    [][/\ superseded' # None =>
             (superseded' \notin alive' /\ superseded' # completion_list')
       /\ \A key \in ListKeys :
             KeyInSupersededList(key) =>
                /\ lastOp'.outcome = "not delivered"
                /\ UNCHANGED SessionAndText]_vars

(* a key was sent to the first list while the second is displayed *)
C7_Witness ==
    /\ lastOp.op = "key"
    /\ superseded # None
    /\ superseded \notin alive
    /\ Displayed
    /\ Len(Items) >= 2

---------------------------------------------------------------------------
(* C8: a list opened with N >= 1 candidates has row 0 selected; after k    *)
(* <Down> in a row the selected row is min(k, N - 1).                      *)
C8_DownReachesLastAndStays ==
    (Displayed /\ downRun >= 0 /\ downRun <= MaxCands) =>
        Selection = {Smaller(downRun, Len(Items) - 1)}

(* one <Down> more than rows, on a list of at least three rows *)
C8_Witness ==
    /\ Displayed
    /\ Len(Items) >= 3
    /\ downRun = Len(Items)
    /\ Selection = {Len(Items) - 1}

---------------------------------------------------------------------------
(* C9: on a displayed list with row i selected and len rows, <Up> selects  *)
(* max(0, i-1), <Down> min(len-1, i+1), <Prior> max(0, i-5) and <Next>     *)
(* min(len-1, i+5), and nothing else is selected.                          *)
C9_NavigateClamps ==
    [][\A keysym \in {"Up", "Down", "Prior", "Next"} :
          (NavigateCompletions(keysym) /\ Displayed /\ Selection # {}) =>
             LET i == Selected
                 len == Len(Items)
                 new == CASE keysym = "Up" -> IF i - 1 < 0 THEN 0 ELSE i - 1
                          [] keysym = "Down" -> IF i + 1 > len - 1 THEN len - 1 ELSE i + 1
                          [] keysym = "Prior" -> IF i - 5 < 0 THEN 0 ELSE i - 5
                          [] keysym = "Next" -> IF i + 5 > len - 1 THEN len - 1 ELSE i + 5
             IN listbox'[completion_list].sel = {new}]_vars

(* right after the request, one <Next> has moved the selection by a full   *)
(* page, short of the last row                                             *)
C9_Witness ==
    /\ lastOp.op = "_navigate_completions"
    /\ Displayed
    /\ anchor.line = caret.line /\ anchor.col = caret.col
    /\ downRun = -1
    /\ Selection = {5}
    /\ Len(Items) > 6

---------------------------------------------------------------------------
(* C10: whenever a list is displayed exactly one row is selected, and it   *)
(* is a row of the list and an index of the stored completions.            *)
C10_SelectionInRange ==
    Displayed =>
        /\ Cardinality(Selection) = 1
        /\ current_completions # <<>>
        /\ \A i \in Selection : 0 <= i /\ i < Len(Stored) /\ i < Len(Items)

(* the last row of a list is selected after a navigation *)
C10_Witness ==
    /\ Displayed
    /\ lastOp.op = "_navigate_completions"
    /\ Len(Items) >= 2
    /\ Selection = {Len(Items) - 1}

---------------------------------------------------------------------------
(* C11: a navigation while no candidate list is displayed (none opened     *)
(* yet, closed by <Escape>, accepted, or after a request that failed or    *)
(* returned nothing) returns without an error and changes neither the      *)
(* selection, the candidates, the popup nor the text.                      *)
C11_NavigateOutsidePopulatedIsNoOp ==
    [][(NavigateStep /\ ~Displayed) =>
          (~Raised(lastOp') /\ UNCHANGED SessionAndText)]_vars

---------------------------------------------------------------------------
(* C12: once a list has been created, <Escape> never raises and leaves no  *)
(* list displayed; pressed again, or with no list displayed (closed,       *)
(* accepted), it changes nothing; and right after it a navigation returns  *)
(* without an error and changes nothing, and an accept leaves the text as  *)
(* it is.                                                                  *)
C12_CloseIsIdempotent ==
    [][/\ (lastOp'.op = "escape" /\ completion_list # None) =>
             /\ ~Raised(lastOp')
             /\ ~(completion_list' # None /\ completion_list' \in alive')
             /\ (~Displayed => UNCHANGED SessionAndText)
       /\ (lastOp.op = "escape" /\ NavigateStep) =>
             (~Raised(lastOp') /\ UNCHANGED SessionAndText)
       /\ (lastOp.op = "escape" /\ AcceptStep) =>
             (buffer' = buffer /\ caret' = caret)]_vars

---------------------------------------------------------------------------
(* C13: wordStart is at most the anchor column, and accept changes no line *)
(* other than the anchor line and neither adds nor removes a line.         *)
C13_SpanOnAnchorLine ==
    [][AcceptedStep =>
          /\ anchor.word_start <= anchor.col
          /\ Len(buffer') = Len(buffer)
          /\ \A l \in 1..Len(buffer) : l # anchor.line => buffer'[l] = buffer[l]]_vars

---------------------------------------------------------------------------
(* C14: the wordStart accept computes is the smallest column c at or left  *)
(* of the cursor such that every character of the line in [c, cursor) is   *)
(* a letter, a digit or an underscore: the cursor column itself when the   *)
(* character left of it is none of these or the cursor is at column 0, and *)
(* 0 when everything left of the cursor is.  The span replaced starts      *)
(* there.                                                                  *)
C14_WordStartIsSmallestColumn ==
    [][AcceptedStep =>
          LET full == buffer[caret.line]
              col == caret.col
              identifier(c) == \A k \in (c + 1)..col :
                                  full[k] \in AlnumChars \cup {"_"}
              wordStart == CHOOSE c \in 0..col :
                              /\ identifier(c)
                              /\ \A d \in 0..col : identifier(d) => c <= d
              text == InsertedText(Stored[Selected + 1])
          IN /\ (col = 0 => wordStart = col)
             /\ (col > 0 /\ full[col] \notin AlnumChars \cup {"_"} => wordStart = col)
             /\ (identifier(0) => wordStart = 0)
             /\ buffer'[caret.line] = Take(full, wordStart) \o text \o Drop(full, col)
             /\ caret'.col = wordStart + Len(text)]_vars

(* an accept has replaced the word "c" or "_" that followed a space: the   *)
(* space is still there and the cursor is right after it                   *)
C14_Witness ==
    /\ lastOp.op = "insert_completion"
    /\ lastOp.outcome = "done"
    /\ buffer[caret.line] = <<Space>>
    /\ caret.col = 1
    /\ Len(buffer) = 1

---------------------------------------------------------------------------
(* C15: the rows of the list are the candidates the provider returned, in  *)
(* the provider's order, and so are the stored completions; a navigation   *)
(* changes neither; accept with row i selected inserts the text of the     *)
(* i-th candidate the provider returned.                                   *)
C15_ProviderOrderKept ==
    [][/\ (OpenStep /\ lastOp'.input = "candidates") =>
             \E completions \in ProviderAnswers(buffer, caret.line, caret.col) :
                /\ completions # <<>>
                /\ current_completions' = <<completions>>
                /\ Len(listbox'[completion_list'].items) = Len(completions)
                /\ \A i \in 1..Len(completions) :
                      /\ listbox'[completion_list'].items[i][2] = completions[i].name
                      /\ listbox'[completion_list'].items[i][3] = completions[i].type
       /\ (NavigateStep /\ Displayed) =>
             /\ listbox'[completion_list].items = Items
             /\ current_completions' = current_completions
       /\ AcceptedStep =>
             /\ Items[Selected + 1][2] = Stored[Selected + 1].name
             /\ \E ws \in 0..caret.col :
                   buffer'[caret.line] =
                       Take(buffer[caret.line], ws)
                         \o Stored[Selected + 1].complete
                         \o Drop(buffer[caret.line], caret.col)]_vars

(* the last of at least three candidates has been accepted: its text is    *)
(* the one now left of the cursor                                          *)
C15_Witness ==
    /\ lastOp.op = "insert_completion"
    /\ lastOp.outcome = "done"
    /\ current_completions # <<>>
    /\ Len(Stored) >= 3
    /\ listbox[completion_list].items = <<>>
    /\ caret.col >= Len(Stored[Len(Stored)].complete)
    /\ Len(Stored[Len(Stored)].complete) >= 1
    /\ SubSeq(buffer[caret.line], caret.col - Len(Stored[Len(Stored)].complete) + 1,
              caret.col) = Stored[Len(Stored)].complete

---------------------------------------------------------------------------
(* Vocabulary of the properties of the analysis *)

(* the text in the editor parses *)
Valid == parse(GetAll(buffer)).ok

(* the text of the cursor line *)
CaretLine == GetLine(buffer, caret.line)

(* update_metrics has analysed the text of the editor *)
MetricsUpdated == lastOp.op = "update_metrics" /\ current_editor

(* show_educational_hints has built its list for the text and the cursor *)
HintsBuilt == lastOp.op = "show_educational_hints" /\ lastOp.outcome = "done"

(* the metrics analyze_code returned, as the sidebar lists them *)
Metrics == metrics_frame.metrics_text

(* the seven counts: linesOfCode, functionCount, classCount, importCount,  *)
(* commentCount, docstringCount, complexity                                *)
MetricKeys ==
    {"loc", "functions", "classes", "imports", "comments", "docstrings", "complexity"}

(* the line-shape rules in the documented order, and their messages *)
RuleOrder ==
    <<"function-def", "class-def", "loop", "exception", "import", "assignment",
      "conditional", "call">>
RuleMessage ==
    <<FunctionTips, ClassTips, LoopTips, ExceptionTips, ImportTips, VariableTips,
      ConditionTips, FunctionCallTips>>
ShapeMessages == {RuleMessage[r] : r \in 1..Len(RuleMessage)}
MatchingRules == {r \in 1..Len(RuleOrder) : Matches(RuleOrder[r], CaretLine)}

(* the functions of the text whose body has more than 20 statements *)
LongFunctions ==
    LET nodes == parse(GetAll(buffer)).nodes
    IN {k \in 1..Len(nodes) : nodes[k].type = "FunctionDef" /\ nodes[k].body > 20}

---------------------------------------------------------------------------
(* C16: for a text that does not parse, the metrics returned have the      *)
(* seven counts, all of them zero.                                         *)
C16_InvalidSourceAllZero ==
    (MetricsUpdated /\ ~Valid) =>
        \A key \in MetricKeys :
            \E k \in 1..Len(Metrics) : Metrics[k].key = key /\ Metrics[k].value = 0

---------------------------------------------------------------------------
(* C17: update_metrics never raises, whatever the text in the editor,      *)
(* parsing or not.                                                         *)
C17_UpdateMetricsNeverRaises ==
    lastOp.op = "update_metrics" => ~Raised(lastOp)

---------------------------------------------------------------------------
(* C18: for a text that parses, the hints are: the line-shape hint if      *)
(* there is one, then the complexity hints, then the best-practices hint.  *)
(* The list is never empty, ends with the best-practices hint, which       *)
(* occurs once, and is that hint alone when no line-shape rule matches the *)
(* cursor line and no function has more than 20 statements.                *)
C18_HintSequenceShape ==
    (HintsBuilt /\ Valid) =>
        /\ hints # <<>>
        /\ hints[Len(hints)] = BestPractices
        /\ Cardinality({k \in 1..Len(hints) : hints[k] = BestPractices}) = 1
        /\ \E s \in 0..1 :
              /\ Len(hints) = s + Cardinality(LongFunctions) + 1
              /\ \A k \in 1..s : hints[k] \in ShapeMessages
              /\ \A k \in (s + 1)..(Len(hints) - 1) : hints[k] = ComplexityTips
        /\ (MatchingRules = {} /\ LongFunctions = {}) => hints = <<BestPractices>>

(* the cursor is on the first of two functions of 21 statements each *)
C18_Witness ==
    /\ HintsBuilt
    /\ Valid
    /\ hints = <<FunctionTips, ComplexityTips, ComplexityTips, BestPractices>>

---------------------------------------------------------------------------
(* C19: for a text that parses, at most one hint of the list is a          *)
(* line-shape hint; it is the first of the list and the hint of the first  *)
(* rule, in the order function-def, class-def, loop, exception, import,    *)
(* plain assignment, conditional, call, that matches the cursor line; for  *)
(* the cursor line "def foo():" it is the function-tip message.            *)
C19_FirstMatchingRule ==
    (HintsBuilt /\ Valid) =>
        LET shape == {k \in 1..Len(hints) : hints[k] \in ShapeMessages}
        IN /\ Cardinality(shape) <= 1
           /\ shape \subseteq {1}
           /\ (MatchingRules = {}) = (shape = {})
           /\ MatchingRules # {} =>
                 hints[1] = RuleMessage[CHOOSE r \in MatchingRules :
                                           \A q \in MatchingRules : r <= q]
           /\ CaretLine = <<"def ", "foo", "(", ")", ":">> =>
                 (hints[1] = FunctionTips /\ shape = {1})

(* the cursor line `x = f()` matches the assignment rule and the call rule *)
C19_Witness ==
    /\ HintsBuilt
    /\ Valid
    /\ Matches("assignment", CaretLine)
    /\ Matches("call", CaretLine)
    /\ hints = <<VariableTips, BestPractices>>

---------------------------------------------------------------------------
(* C20: for a text that does not parse, the list of hints is empty, even   *)
(* when the cursor line matches a line-shape rule, and nothing is raised.  *)
C20_InvalidSourceNoHints ==
    (HintsBuilt /\ ~Valid) => (hints = <<>> /\ ~Raised(lastOp))

(* the cursor is on a line `def (`; another line of the text is fine *)
C20_Witness ==
    /\ HintsBuilt
    /\ ~Valid
    /\ Len(buffer) = 2
    /\ MatchingRules # {}
    /\ hints = <<>>

---------------------------------------------------------------------------
(* C21: for a text that parses, the number of complexity hints is the      *)
(* number of functions of the text, methods and nested functions included  *)
(* and wherever the cursor is, whose body has more than 20 statements: a   *)
(* function of exactly 20 statements gives none, one of 21 gives one.      *)
C21_OneComplexityHintPerLongFunction ==
    (HintsBuilt /\ Valid) =>
        LET complexity == {k \in 1..Len(hints) : hints[k] = ComplexityTips}
            nodes == parse(GetAll(buffer)).nodes
            bodies(n) == {k \in 1..Len(nodes) :
                             nodes[k].type = "FunctionDef" /\ nodes[k].body = n}
        IN /\ Cardinality(complexity) = Cardinality(LongFunctions)
           /\ (\A k \in 1..Len(nodes) :
                  nodes[k].type = "FunctionDef" => nodes[k].body <= 20)
                 => complexity = {}
           /\ (LongFunctions = bodies(21) /\ Cardinality(bodies(21)) = 1)
                 => Cardinality(complexity) = 1
           /\ \A l \in 1..Len(buffer) :
                 /\ buffer[l].form = "def21" => complexity # {}
                 /\ (Len(buffer) = 1 /\ buffer[l].form = "def20") => complexity = {}

(* a method of 21 statements, the cursor on the class line *)
C21_Witness ==
    /\ HintsBuilt
    /\ Valid
    /\ buffer = <<[indent |-> 0, form |-> "class"], [indent |-> 1, form |-> "def21"]>>
    /\ caret.line = 1
    /\ hints = <<ClassTips, ComplexityTips, BestPractices>>

---------------------------------------------------------------------------
(* C22: the line-shape hint depends on the text of the cursor line only.   *)
(* The cursor line stays what it is while the other lines are rewritten,   *)
(* added or deleted; two lists of hints built for texts that parse, before *)
(* and after, have the same line-shape hint, or none both.                 *)
C22_ShapeDependsOnCaretLineOnly ==
    [][(lastOp'.op = "show_educational_hints" /\ hints # <<>> /\ hints' # <<>>) =>
          LET shapeOf(hs) == SelectSeq(hs, LAMBDA h : h \in ShapeMessages)
          IN shapeOf(hints') = shapeOf(hints)]_vars

(* the hints were built with the cursor on `x = f()`, the only line; then  *)
(* a function of 21 statements was added below: the list of the earlier    *)
(* text is the one the next call is compared with                          *)
C22_Witness ==
    /\ lastOp.op = "edit"
    /\ caret.line = 1
    /\ Len(buffer) = 2
    /\ buffer[1].form = "assign"
    /\ buffer[2].form = "def21"
    /\ hints = <<VariableTips, BestPractices>>

---------------------------------------------------------------------------
(* Vocabulary of the properties of the metrics *)

(* the nodes of the syntax tree of the text, each once *)
TreeNodes == parse(GetAll(buffer)).nodes

(* the nodes of the tree whose kind is one of types *)
NodesOf(types) == {k \in 1..Len(TreeNodes) : TreeNodes[k].type \in types}

(* the lines of the text of one of the forms *)
LinesOf(forms) == {l \in 1..Len(buffer) : buffer[l].form \in forms}

(* the metric of the sidebar under key *)
Metric(key) == Get(Metrics, key, -1)

(* the constructs calculate_complexity counts one for *)
CountedKinds == {"If", "While", "For", "Try", "ExceptHandler", "With", "Assert"}

(* update_metrics has analysed a text that parses *)
ValidMetrics == MetricsUpdated /\ Valid /\ Metrics # <<>>

---------------------------------------------------------------------------
---------------------------------------------------------------------------
---------------------------------------------------------------------------
(* C25: when a statement is added to the body of a function of a text      *)
(* that parses and the new text parses, the complexity of the new text is  *)
(* at least the complexity of the old one, and greater when the statement  *)
(* added is one of the counted constructs.                                 *)
C25_ComplexityMonotone ==
    [][(/\ lastOp.op = "insert"
        /\ lastOp'.op = "update_metrics"
        /\ Valid
        /\ \E l \in 1..(caret.line - 1) :
              /\ buffer[l].form = "def"
              /\ \A m \in (l + 1)..(caret.line - 1) : buffer[m].indent > 0)
       => /\ Get(Metrics', "complexity", -1) >= Metric("complexity")
          /\ lastOp.input \in {"if", "for", "while", "with", "assert_and3", "try",
                                "except"}
                => Get(Metrics', "complexity", -1) > Metric("complexity")]_vars

C25_Witness ==
    /\ ValidMetrics
    /\ caret.line = 3
    /\ buffer = <<[indent |-> 0, form |-> "def"], [indent |-> 1, form |-> "if"],
                  [indent |-> 1, form |-> "while"]>>
    /\ Metric("complexity") = 2

---------------------------------------------------------------------------
(* C26: for a text that parses, functionCount is the number of function    *)
(* definitions, classCount the number of class definitions and importCount *)
(* the number of import and import-from statements anywhere in the tree,   *)
(* methods and nested definitions included, each node in one count only.   *)
C26_DefinitionCounts ==
    ValidMetrics =>
        /\ Metric("functions") = Cardinality(NodesOf({"FunctionDef"}))
        /\ Metric("classes") = Cardinality(NodesOf({"ClassDef"}))
        /\ Metric("imports") = Cardinality(NodesOf({"Import", "ImportFrom"}))
        /\ Metric("functions") = Cardinality(LinesOf({"def", "def1", "def20", "def21"}))
        /\ Metric("classes") = Cardinality(LinesOf({"class"}))
        /\ Metric("imports") = Cardinality(LinesOf({"import", "from_import"}))
        /\ Metric("functions") + Metric("classes") + Metric("imports")
              = Cardinality(NodesOf({"FunctionDef", "ClassDef", "Import", "ImportFrom"}))

C26_Witness ==
    /\ ValidMetrics
    /\ buffer = <<[indent |-> 0, form |-> "class"], [indent |-> 1, form |-> "def1"],
                  [indent |-> 1, form |-> "def1"]>>
    /\ Metric("functions") = 2
    /\ Metric("classes") = 1
    /\ Metric("imports") = 0

---------------------------------------------------------------------------
(* C27, as stated: docstringCount is the number of function, class and     *)
(* module nodes whose first body statement is a string literal, an empty   *)
(* or whitespace-only literal included.                                    *)
C27_EveryLeadingStringCounted ==
    ValidMetrics =>
        Metric("docstrings") =
            Cardinality({n \in NodesOf({"FunctionDef", "ClassDef", "Module"}) :
                            TreeNodes[n].first \in {"text", "blank"}})

---------------------------------------------------------------------------
(* C28: a successful accept changes the text only by the span: the anchor  *)
(* line becomes its text before wordStart, the inserted text, and its text *)
(* from the cursor column on; every other line is unchanged, and no line   *)
(* is added or removed (the inserted text has no line break).              *)
C28_AcceptChangesOnlyTheSpan ==
    [][AcceptedStep =>
          LET old == buffer[anchor.line]
              word_start == WordStart(Take(old, caret.col))
          IN /\ Len(buffer') = Len(buffer)
             /\ buffer'[anchor.line] =
                   Take(old, word_start)
                     \o InsertedText(Stored[Selected + 1])
                     \o Drop(old, caret.col)
             /\ \A l \in 1..Len(buffer) : l # anchor.line => buffer'[l] = buffer[l]]_vars

---------------------------------------------------------------------------
(* C29: whenever a list is displayed with a row selected, the completions  *)
(* insert_completion would index are those of the request that filled the *)
(* list: as many as the list has rows, row i showing stored completion i,  *)
(* so the selected row addresses a completion of the same request.         *)
C29_StoredMatchesDisplayed ==
    (Displayed /\ Selection # {}) =>
        /\ current_completions # <<>>
        /\ Len(Stored) = Len(Items)
        /\ \A i \in 1..Len(Items) : Items[i] = Row(Stored[i])
        /\ Selected < Len(Stored)

(* a request without candidates has left the earlier list on screen *)
C29_Witness ==
    /\ Displayed
    /\ lastOp.op = "show_completions"
    /\ lastOp.input = "no candidates"
    /\ Len(Items) >= 2
    /\ Selection = {1}
    /\ Len(Stored) = Len(Items)

---------------------------------------------------------------------------
(* C30: in the terminal emulator 0 <= history_index <= len(history)        *)
(* always; a non-empty command is appended and history_index becomes       *)
(* len(history); an empty command changes neither; <Up> and <Down> show    *)
(* history[history_index] with 0 <= history_index < len(history) or show   *)
(* nothing new; and k presses of <Up> right after a command ran show the   *)
(* k-th most recent command, the oldest once it is reached.                *)
C30_HistoryIndexInRange ==
    /\ [](/\ 0 <= history_index
          /\ history_index <= Len(history)
          /\ upRun >= 1 =>
                input = history[Len(history) + 1 - Smaller(upRun, Len(history))])
    /\ [][/\ (lastOp'.op = "execute_command" /\ strip(input) # <<>>) =>
                /\ history' = Append(history, strip(input))
                /\ history_index' = Len(history')
          /\ (lastOp'.op = "execute_command" /\ strip(input) = <<>>) =>
                UNCHANGED <<history, history_index>>
          /\ lastOp'.op \in {"history_up", "history_down"} =>
                /\ history' = history
                /\ \/ UNCHANGED <<history_index, input>>
                   \/ /\ 0 <= history_index'
                      /\ history_index' < Len(history)
                      /\ input' = history[history_index' + 1]]_vars

(* three commands ran, then <Up> was pressed twice *)
C30_Witness ==
    /\ Len(history) = 3
    /\ upRun = 2
    /\ history_index = 1
    /\ input = history[2]
    /\ history[2] # history[3]

=============================================================================
